---- MODULE Spec2Model ----
(***************************************************************************)
(* Model of pkg/router/router.go: the Router's selection refresh           *)
(* (doSelection), its turn token (theConch), its RWMutex                   *)
(* (selectionInProgress), the rewriter closure, and the retrying request   *)
(* path (buffer -> internalRouter -> forward).                             *)
(***************************************************************************)
EXTENDS Integers, Sequences, FiniteSets, TLC

\* ------------------------------------------------------------------ bounds
\* refreshes are started only while fewer than MaxEvents have been counted
MaxEvents == 2

\* equal is applied to selections of at most MaxLen endpoints
MaxLen == 3

\* ------------------------------------------------------------- value space
\* a Go pointer or func value: Nil, or Ptr(v) holding v
Nil == <<>>
Ptr(v) == <<v>>
Deref(p) == p[1]
None == "none"

\* a *url.URL compared by value (equal, contains): scheme and host
UrlA == [Scheme |-> "http", Host |-> "a"]
UrlB == [Scheme |-> "http", Host |-> "b"]
Endpoints == {UrlA, UrlB}

Range(s) == {s[i] : i \in 1..Len(s)}

\* the selections a strategy can admit: sequences of distinct endpoints
Selections ==
  {<<>>, <<UrlA>>, <<UrlB>>, <<UrlA, UrlB>>, <<UrlB, UrlA>>}

\* selector.Result: the discovered candidates and the admitted selection
Results ==
  {[Candidates |-> c, Selection |-> s] :
      c \in SUBSET Endpoints, s \in Selections}

\* what selector.Select() can return: Selection is drawn from Candidates
SelectOutputs == {r \in Results : Range(r.Selection) \subseteq r.Candidates}

\* the goroutines that run doSelection: NewRouter's caller, the timer loop
\* started by NewRouter, and explicit refresh triggers
Main == "main"
Timer == "timer"
Triggers == {"t1", "t2"}
Procs == {Main, Timer} \cup Triggers

VARIABLES
  theConch,          \* number of tokens in the capacity-1 channel
  wholder,           \* goroutine inside selectionInProgress.Lock()/holding it
  readers,           \* goroutines holding selectionInProgress for reading
  pc,                \* position of each goroutine
  result,            \* doSelection's local `result` of each goroutine
  err,               \* doSelection's local `err` (TRUE: non-nil)
  selection,         \* r.selection
  rewriter,          \* r.rewriter: Nil or the Selection the closure captured
  installs,          \* number of assignments made to r.rewriter
  selectedBackends,  \* metrics gauge
  selectionEvents,   \* metrics counter
  selectCalls,       \* number of selector.Select() calls made
  taken,             \* number of times the token was received
  seen,              \* per waiter: value of `taken` when its receive failed
  crashed,           \* an unrecovered panic has ended the process
  affinityOn,        \* whether an affinity option is configured
  binding,           \* the client's affinity binding: Nil or Ptr(endpoint)
  rpc,               \* position of the client request in Router.ServeHTTP
  attempt,           \* the buffer's attempt number for the request
  target,            \* backend the latest attempt was sent to
  firstTarget,       \* backend the first attempt was sent to
  outcome,           \* how the latest attempt ended
  statusOut,         \* Endpoints of the Status() call in progress, else Nil
  eqA,               \* first argument of a call of equal
  eqB,               \* second argument of a call of equal
  eqOut              \* how that call ended ("none" before it)

refreshVars == <<theConch, wholder, readers, pc, result, err, selection,
                 rewriter, installs, selectedBackends, selectionEvents,
                 selectCalls, taken, seen, crashed>>

reqVars == <<affinityOn, binding, rpc, attempt, target, firstTarget, outcome>>

auxVars == <<statusOut, eqA, eqB, eqOut>>

vars == <<refreshVars, reqVars, auxVars>>

\* ------------------------------------------------------------- pure helpers
RECURSIVE equalFrom(_, _, _)
equalFrom(a, b, i) ==
  IF i > Len(a) THEN (IF Len(a) = Len(b) THEN "true" ELSE "false")
  ELSE IF i > Len(b) THEN "panic"
  ELSE IF a[i] # b[i] THEN "false"
  ELSE equalFrom(a, b, i + 1)

\* equal(a, b): "true", "false", or "panic" (index out of range on b[i])
equal(a, b) == equalFrom(a, b, 1)

\* ------------------------------------------------------------------- Init
\* the Router as the composite literal of NewRouter leaves it
InitRouter ==
  /\ theConch = 0
  /\ wholder = None
  /\ readers = {}
  /\ pc = [g \in Procs |-> IF g = Main THEN "seed" ELSE "off"]
  /\ result = [g \in Procs |-> Nil]
  /\ err = [g \in Procs |-> FALSE]
  /\ selection = Nil
  /\ rewriter = Nil
  /\ installs = 0
  /\ selectedBackends = 0
  /\ selectionEvents = 0
  /\ selectCalls = 0
  /\ taken = 0
  /\ seen = [g \in Procs |-> 0]
  /\ crashed = FALSE
  /\ affinityOn \in BOOLEAN
  /\ binding = Nil
  /\ rpc = "idle"
  /\ attempt = 0
  /\ target = Nil
  /\ firstTarget = Nil
  /\ outcome = "none"
  /\ statusOut = Nil

Init ==
  /\ InitRouter
  /\ eqA = <<>>
  /\ eqB = <<>>
  /\ eqOut = "none"

\* position of g after its doSelection call returns
Ret(g) == IF g = Main THEN "spawn" ELSE "idle"

\* --------------------------------------------------------------- NewRouter
\* r.theConch <- struct{}{} ; r.doSelection()
Seed ==
  /\ ~crashed
  /\ pc[Main] = "seed"
  /\ theConch = 0
  /\ theConch' = 1
  /\ pc' = [pc EXCEPT ![Main] = "recv"]
  /\ UNCHANGED <<wholder, readers, result, err, selection, rewriter, installs,
                 selectedBackends, selectionEvents, selectCalls, taken, seen,
                 crashed>>
  /\ UNCHANGED reqVars
  /\ UNCHANGED auxVars

\* go func() { for { time.Sleep; r.doSelection() } }() ; return r
Spawn ==
  /\ ~crashed
  /\ pc[Main] = "spawn"
  /\ pc' = [g \in Procs |-> IF g = Main THEN "done" ELSE "idle"]
  /\ UNCHANGED <<theConch, wholder, readers, result, err, selection, rewriter,
                 installs, selectedBackends, selectionEvents, selectCalls,
                 taken, seen, crashed>>
  /\ UNCHANGED reqVars
  /\ UNCHANGED auxVars

\* ------------------------------------------------------------- doSelection
\* the timer wakes up, or a trigger fires: r.doSelection() is called
Call(g) ==
  /\ ~crashed
  /\ pc[g] = "idle"
  /\ selectionEvents < MaxEvents
  /\ pc' = [pc EXCEPT ![g] = "recv"]
  /\ UNCHANGED <<theConch, wholder, readers, result, err, selection, rewriter,
                 installs, selectedBackends, selectionEvents, selectCalls,
                 taken, seen, crashed>>
  /\ UNCHANGED reqVars
  /\ UNCHANGED auxVars

\* a select whose default branch also goes on to do the selection
BranchAlwaysWriter(got) == "lock"

\* a select whose two branches are exchanged
BranchSwapped(got) == IF got THEN "rlock" ELSE "lock"

\* the branch the select statement runs: the writer branch when the token
\* was received, the default (waiter) branch otherwise
Branch(got) == IF got THEN "lock" ELSE "rlock"

\* select { case <-r.theConch: ... default: ... }
Recv(g) ==
  /\ ~crashed
  /\ pc[g] = "recv"
  /\ IF theConch = 1
       THEN /\ theConch' = 0
            /\ taken' = taken + 1
            /\ pc' = [pc EXCEPT ![g] = Branch(TRUE)]
            /\ seen' = seen
       ELSE /\ seen' = [seen EXCEPT ![g] = taken]
            /\ pc' = [pc EXCEPT ![g] = Branch(FALSE)]
            /\ UNCHANGED <<theConch, taken>>
  /\ UNCHANGED <<wholder, readers, result, err, selection, rewriter, installs,
                 selectedBackends, selectionEvents, selectCalls, crashed>>
  /\ UNCHANGED reqVars
  /\ UNCHANGED auxVars

\* a Lock() that does not wait for the writer already inside
CanLockNoWait == TRUE

\* sync.RWMutex: Lock() passes only when no other writer is inside
CanLock == wholder = None

\* r.selectionInProgress.Lock(): become the (pending) writer; new readers
\* are held back from now on
Lock(g) ==
  /\ ~crashed
  /\ pc[g] = "lock"
  /\ CanLock
  /\ wholder' = g
  /\ pc' = [pc EXCEPT ![g] = "lockwait"]
  /\ UNCHANGED <<theConch, readers, result, err, selection, rewriter, installs,
                 selectedBackends, selectionEvents, selectCalls, taken, seen,
                 crashed>>
  /\ UNCHANGED reqVars
  /\ UNCHANGED auxVars

\* Lock() returns once the readers that were active have departed
Granted(g) ==
  /\ ~crashed
  /\ pc[g] = "lockwait"
  /\ wholder = g
  /\ readers = {}
  /\ pc' = [pc EXCEPT ![g] = "select"]
  /\ UNCHANGED <<theConch, wholder, readers, result, err, selection, rewriter,
                 installs, selectedBackends, selectionEvents, selectCalls,
                 taken, seen, crashed>>
  /\ UNCHANGED reqVars
  /\ UNCHANGED auxVars

\* result, err := r.selector.Select()
Select(g) ==
  /\ ~crashed
  /\ pc[g] = "select"
  /\ \E res \in SelectOutputs, e \in BOOLEAN :
       /\ result' = [result EXCEPT ![g] = Ptr(res)]
       /\ err' = [err EXCEPT ![g] = e]
  /\ selectCalls' = selectCalls + 1
  /\ pc' = [pc EXCEPT ![g] = "policy"]
  /\ UNCHANGED <<theConch, wholder, readers, selection, rewriter, installs,
                 selectedBackends, selectionEvents, taken, seen, crashed>>
  /\ UNCHANGED reqVars
  /\ UNCHANGED auxVars

\* an empty-Selection branch that adopts the new result even on an error
EmptyBranchAlwaysAdopt(cur, res, e) == Ptr(res)

\* an empty-Selection branch that keeps an existing result even without error
EmptyBranchKeepPrevious(cur, res, e) == IF cur = Nil THEN Ptr(res) ELSE cur

\* an empty-Selection branch that drops every result that came with an error
EmptyBranchNeverAdoptOnError(cur, res, e) == IF e THEN cur ELSE Ptr(res)

\* an empty-Selection branch that stores nil for an empty result
EmptyBranchClears(cur, res, e) ==
  IF e THEN (IF cur = Nil THEN Ptr(res) ELSE cur) ELSE Nil

\* the value r.selection gets in the empty-Selection branch
EmptyBranch(cur, res, e) ==
  IF e THEN (IF cur = Nil THEN Ptr(res) ELSE cur) ELSE Ptr(res)

\* a non-empty branch that makes a closure only when there is no previous
\* result
NeedsRewriterOnlyFirst(cur, res) ==
  IF cur = Nil THEN "true"
  ELSE IF equal(Deref(cur).Selection, res.Selection) = "panic" THEN "panic"
  ELSE "false"

\* a non-empty branch that makes a new closure on every refresh
NeedsRewriterAlways(cur, res) ==
  IF cur = Nil THEN "true"
  ELSE IF equal(Deref(cur).Selection, res.Selection) = "panic" THEN "panic"
  ELSE "true"

\* whether the non-empty branch assigns r.rewriter: "true", "false", "panic"
NeedsRewriter(cur, res) ==
  IF cur = Nil THEN "true"
  ELSE LET eq == equal(Deref(cur).Selection, res.Selection)
       IN IF eq = "panic" THEN "panic"
          ELSE IF eq = "false" THEN "true" ELSE "false"

\* if result.Selection == nil || len == 0 {...} else { if r.selection == nil
\* || !equal(...) { r.rewriter = func... } ...
Policy(g) ==
  /\ ~crashed
  /\ pc[g] = "policy"
  /\ IF Len(Deref(result[g]).Selection) = 0
       THEN /\ selection' = EmptyBranch(selection, Deref(result[g]), err[g])
            /\ pc' = [pc EXCEPT ![g] = "metrics"]
            /\ UNCHANGED <<rewriter, installs>>
       ELSE LET need == NeedsRewriter(selection, Deref(result[g]))
            IN /\ selection' = selection
               /\ IF need = "panic"
                    THEN /\ pc' = [pc EXCEPT ![g] = "panicking"]
                         /\ UNCHANGED <<rewriter, installs>>
                    ELSE /\ pc' = [pc EXCEPT ![g] = "assign"]
                         /\ IF need = "true"
                              THEN /\ rewriter' = Ptr(Deref(result[g]).Selection)
                                   /\ installs' = installs + 1
                              ELSE UNCHANGED <<rewriter, installs>>
  /\ UNCHANGED <<theConch, wholder, readers, result, err, selectedBackends,
                 selectionEvents, selectCalls, taken, seen, crashed>>
  /\ UNCHANGED reqVars
  /\ UNCHANGED auxVars

\* the panic raised in equal unwinds doSelection and runs the deferred
\* r.selectionInProgress.Unlock(): the lock is released and the held-back
\* readers are let through; line 138 is not reached, the token stays out
PanicUnlock(g) ==
  /\ ~crashed
  /\ pc[g] = "panicking"
  /\ wholder = g
  /\ wholder' = None
  /\ readers' = {h \in Procs : pc[h] = "rwait"}
  /\ pc' = [h \in Procs |->
              IF h = g THEN "panicked"
              ELSE IF pc[h] = "rwait" THEN "runlock" ELSE pc[h]]
  /\ result' = [result EXCEPT ![g] = Nil]
  /\ err' = [err EXCEPT ![g] = FALSE]
  /\ UNCHANGED <<theConch, selection, rewriter, installs, selectedBackends,
                 selectionEvents, selectCalls, taken, seen, crashed>>
  /\ UNCHANGED reqVars
  /\ UNCHANGED auxVars

\* nothing recovers the panic (the timer goroutine of NewRouter has no
\* recover): the process exits
Die(g) ==
  /\ ~crashed
  /\ pc[g] = "panicked"
  /\ crashed' = TRUE
  /\ UNCHANGED <<theConch, wholder, readers, pc, result, err, selection,
                 rewriter, installs, selectedBackends, selectionEvents,
                 selectCalls, taken, seen>>
  /\ UNCHANGED reqVars
  /\ UNCHANGED auxVars

\* the caller of an explicit trigger recovers the panic: the process goes
\* on without the token; the goroutine is followed no further
Recover(g) ==
  /\ ~crashed
  /\ g \in Triggers
  /\ pc[g] = "panicked"
  /\ pc' = [pc EXCEPT ![g] = "recovered"]
  /\ UNCHANGED <<theConch, wholder, readers, result, err, selection, rewriter,
                 installs, selectedBackends, selectionEvents, selectCalls,
                 taken, seen, crashed>>
  /\ UNCHANGED reqVars
  /\ UNCHANGED auxVars

\* r.selection = result (line 130)
Assign(g) ==
  /\ ~crashed
  /\ pc[g] = "assign"
  /\ selection' = result[g]
  /\ pc' = [pc EXCEPT ![g] = "metrics"]
  /\ UNCHANGED <<theConch, wholder, readers, result, err, rewriter, installs,
                 selectedBackends, selectionEvents, selectCalls, taken, seen,
                 crashed>>
  /\ UNCHANGED reqVars
  /\ UNCHANGED auxVars

\* selectedBackends.Set(len(result.Selection)); selectionEvents.Inc()
Metrics(g) ==
  /\ ~crashed
  /\ pc[g] = "metrics"
  /\ selectedBackends' = Len(Deref(result[g]).Selection)
  /\ selectionEvents' = selectionEvents + 1
  /\ pc' = [pc EXCEPT ![g] = "send"]
  /\ UNCHANGED <<theConch, wholder, readers, result, err, selection, rewriter,
                 installs, selectCalls, taken, seen, crashed>>
  /\ UNCHANGED reqVars
  /\ UNCHANGED auxVars

\* a writer that releases the lock together with the token
SendReleasing(g) ==
  /\ ~crashed
  /\ pc[g] = "send"
  /\ theConch = 0
  /\ theConch' = 1
  /\ wholder' = None
  /\ pc' = [pc EXCEPT ![g] = "unlock"]
  /\ UNCHANGED <<readers, result, err, selection, rewriter, installs,
                 selectedBackends, selectionEvents, selectCalls, taken, seen,
                 crashed>>
  /\ UNCHANGED reqVars
  /\ UNCHANGED auxVars

\* r.theConch <- struct{}{}  (blocks while the channel is full)
Send(g) ==
  /\ ~crashed
  /\ pc[g] = "send"
  /\ theConch = 0
  /\ theConch' = 1
  /\ pc' = [pc EXCEPT ![g] = "unlock"]
  /\ UNCHANGED <<wholder, readers, result, err, selection, rewriter, installs,
                 selectedBackends, selectionEvents, selectCalls, taken, seen,
                 crashed>>
  /\ UNCHANGED reqVars
  /\ UNCHANGED auxVars

\* deferred r.selectionInProgress.Unlock(): the readers that were held back
\* get the read lock before any later writer
Unlock(g) ==
  /\ ~crashed
  /\ pc[g] = "unlock"
  /\ wholder = g
  /\ wholder' = None
  /\ readers' = {h \in Procs : pc[h] = "rwait"}
  /\ pc' = [h \in Procs |->
              IF h = g THEN Ret(g)
              ELSE IF pc[h] = "rwait" THEN "runlock" ELSE pc[h]]
  /\ result' = [result EXCEPT ![g] = Nil]
  /\ err' = [err EXCEPT ![g] = FALSE]
  /\ UNCHANGED <<theConch, selection, rewriter, installs, selectedBackends,
                 selectionEvents, selectCalls, taken, seen, crashed>>
  /\ UNCHANGED reqVars
  /\ UNCHANGED auxVars

\* default: r.selectionInProgress.RLock()
RLock(g) ==
  /\ ~crashed
  /\ pc[g] = "rlock"
  /\ IF wholder = None
       THEN /\ readers' = readers \cup {g}
            /\ pc' = [pc EXCEPT ![g] = "runlock"]
       ELSE /\ readers' = readers
            /\ pc' = [pc EXCEPT ![g] = "rwait"]
  /\ UNCHANGED <<theConch, wholder, result, err, selection, rewriter, installs,
                 selectedBackends, selectionEvents, selectCalls, taken, seen,
                 crashed>>
  /\ UNCHANGED reqVars
  /\ UNCHANGED auxVars

\* deferred r.selectionInProgress.RUnlock(); doSelection returns
RUnlock(g) ==
  /\ ~crashed
  /\ pc[g] = "runlock"
  /\ readers' = readers \ {g}
  /\ pc' = [pc EXCEPT ![g] = Ret(g)]
  /\ seen' = [seen EXCEPT ![g] = 0]
  /\ UNCHANGED <<theConch, wholder, result, err, selection, rewriter, installs,
                 selectedBackends, selectionEvents, selectCalls, taken,
                 crashed>>
  /\ UNCHANGED reqVars
  /\ UNCHANGED auxVars

\* ----------------------------------------------------------- request path
\* contains(a, u): some element of a equals u by value
contains(a, u) == \E i \in 1..Len(a) : u = a[i]

\* Strategy.NextIndex(selection): some index of the selection (every
\* strategy: random, minimum-history, ...)
NextIndex(sel) == 1..Len(sel)

\* the rewriter closure: target := selection[NextIndex(selection)] over the
\* Selection captured when the closure was made
RewriterTargets(rw) == {Deref(rw)[i] : i \in NextIndex(Deref(rw))}

\* buffer.Retry(`IsNetworkError() && Attempts() < 2`)
RetryLimit == 2

\* a predicate that still retries after the second attempt
RetryPredicateOffByOne(o, a) == o = "neterr" /\ a <= RetryLimit

RetryPredicate(o, a) == o = "neterr" /\ a < RetryLimit

\* the Selection of r.selection, empty when r.selection is nil
SelectionNow == IF selection = Nil THEN <<>> ELSE Deref(selection).Selection

\* AffinityProvider: the binding is honoured while its endpoint is a member
\* of the current selection
AffinityHit ==
  /\ affinityOn
  /\ binding # Nil
  /\ selection # Nil
  /\ contains(Deref(selection).Selection, Deref(binding))

\* Router.ServeHTTP: r.buffer.ServeHTTP(w, retryableRequest(req))
NewRequest ==
  /\ ~crashed
  /\ pc[Main] = "done"
  /\ rpc = "idle"
  /\ rpc' = "dispatch"
  /\ attempt' = 1
  /\ target' = Nil
  /\ firstTarget' = Nil
  /\ outcome' = "none"
  /\ UNCHANGED <<affinityOn, binding>>
  /\ UNCHANGED refreshVars
  /\ UNCHANGED auxVars

\* what the forwarding transport can answer
ForwardOutcomes == {"ok", "neterr", "apperr"}

\* RequestDispatcher, resolution of a request's target: the affinity binding
\* when it is honoured, else a pick of the installed rewrite rule
Resolve ==
  IF AffinityHit THEN {binding}
  ELSE IF rewriter = Nil THEN {}
  ELSE {Ptr(u) : u \in RewriterTargets(rewriter)}

\* a retry that resolves its target anew
RetryTargetsAnew(first) == Resolve

\* RequestDispatcher, retry policy: a retry goes to the same resolved target
RetryTargets(first) == {first}

\* RequestDispatcher (internalRouter.ServeHTTP), once per attempt. First
\* attempt: read RouterState once as a self-consistent pair (under the shared
\* lock, so not while a writer holds the exclusive lock); fail with the
\* no-usable-backends condition when the snapshot's Selection is empty, else
\* resolve the target, rewrite and forward. Retry: forward to the target
\* resolved for the first attempt.
Dispatch ==
  /\ ~crashed
  /\ rpc = "dispatch"
  /\ IF attempt = 1
       THEN /\ wholder = None
            /\ IF SelectionNow = <<>>
                 THEN /\ target' = Nil
                      /\ binding' = binding
                      /\ outcome' = "nobackend"
                 ELSE /\ target' \in Resolve
                      /\ binding' = IF affinityOn THEN target' ELSE binding
                      /\ outcome' \in ForwardOutcomes
       ELSE /\ target' \in RetryTargets(target)
            /\ binding' = binding
            /\ outcome' \in ForwardOutcomes
  /\ firstTarget' = IF attempt = 1 THEN target' ELSE firstTarget
  /\ rpc' = "forwarded"
  /\ UNCHANGED <<affinityOn, attempt>>
  /\ UNCHANGED refreshVars
  /\ UNCHANGED auxVars

\* the buffer's loop: retry while the predicate holds, else write the response
AfterAttempt ==
  /\ ~crashed
  /\ rpc = "forwarded"
  /\ IF RetryPredicate(outcome, attempt)
       THEN /\ attempt' = attempt + 1
            /\ rpc' = "dispatch"
       ELSE /\ attempt' = attempt
            /\ rpc' = "responded"
  /\ UNCHANGED <<affinityOn, binding, target, firstTarget, outcome>>
  /\ UNCHANGED refreshVars
  /\ UNCHANGED auxVars

\* ServeHTTP returns
Respond ==
  /\ ~crashed
  /\ rpc = "responded"
  /\ rpc' = "idle"
  /\ attempt' = 0
  /\ target' = Nil
  /\ firstTarget' = Nil
  /\ outcome' = "none"
  /\ UNCHANGED <<affinityOn, binding>>
  /\ UNCHANGED refreshVars
  /\ UNCHANGED auxVars

\* ------------------------------------------------------------------ Status
\* a Status that reports the admitted endpoints only
StatusEndpointsAdmitted(sel) == Range(Deref(sel).Selection)

\* Status.Endpoints: r.selection.Candidates
StatusEndpoints(sel) == Deref(sel).Candidates

\* Router.Status(), callable once NewRouter has returned the router; it
\* takes no lock and dereferences r.selection
Status ==
  /\ ~crashed
  /\ pc[Main] = "done"
  /\ statusOut = Nil
  /\ IF selection = Nil
       THEN /\ crashed' = TRUE
            /\ statusOut' = statusOut
       ELSE /\ crashed' = crashed
            /\ statusOut' = Ptr(StatusEndpoints(selection))
  /\ UNCHANGED <<theConch, wholder, readers, pc, result, err, selection,
                 rewriter, installs, selectedBackends, selectionEvents,
                 selectCalls, taken, seen>>
  /\ UNCHANGED reqVars
  /\ UNCHANGED <<eqA, eqB, eqOut>>

\* the caller is done with the returned *Status
StatusDone ==
  /\ ~crashed
  /\ statusOut # Nil
  /\ statusOut' = Nil
  /\ UNCHANGED refreshVars
  /\ UNCHANGED reqVars
  /\ UNCHANGED <<eqA, eqB, eqOut>>

Next ==
  \/ Seed
  \/ Spawn
  \/ \E g \in Procs : Call(g)
  \/ \E g \in Procs : Recv(g)
  \/ \E g \in Procs : Lock(g)
  \/ \E g \in Procs : Granted(g)
  \/ \E g \in Procs : Select(g)
  \/ \E g \in Procs : Policy(g)
  \/ \E g \in Procs : Assign(g)
  \/ \E g \in Procs : Metrics(g)
  \/ \E g \in Procs : Send(g)
  \/ \E g \in Procs : Unlock(g)
  \/ \E g \in Procs : RLock(g)
  \/ \E g \in Procs : RUnlock(g)
  \/ \E g \in Procs : PanicUnlock(g)
  \/ \E g \in Procs : Die(g)
  \/ \E g \in Procs : Recover(g)

Spec == Init /\ [][Next]_vars

\* a goroutine inside doSelection takes its next step; the scheduler runs
\* every goroutine that can run, and NewRouter goes on after its call
Step(g) ==
  \/ Recv(g)
  \/ Lock(g)
  \/ Granted(g)
  \/ Select(g)
  \/ Policy(g)
  \/ Assign(g)
  \/ Metrics(g)
  \/ Send(g)
  \/ Unlock(g)
  \/ RLock(g)
  \/ RUnlock(g)
  \/ PanicUnlock(g)

FairSpec ==
  /\ Spec
  /\ WF_vars(Seed)
  /\ WF_vars(Spawn)
  /\ \A g \in Procs : WF_vars(Step(g))
  /\ \A g \in Procs : WF_vars(Die(g) \/ Recover(g))

\* the router as NewRouter builds it, serving one client: the only callers of
\* doSelection are NewRouter and the timer loop
Refreshers == {Main, Timer}

NextServe ==
  \/ Seed
  \/ Spawn
  \/ \E g \in Refreshers : Call(g)
  \/ \E g \in Refreshers : Recv(g)
  \/ \E g \in Refreshers : Lock(g)
  \/ \E g \in Refreshers : Granted(g)
  \/ \E g \in Refreshers : Select(g)
  \/ \E g \in Refreshers : Policy(g)
  \/ \E g \in Refreshers : Assign(g)
  \/ \E g \in Refreshers : Metrics(g)
  \/ \E g \in Refreshers : Send(g)
  \/ \E g \in Refreshers : Unlock(g)
  \/ \E g \in Refreshers : PanicUnlock(g)
  \/ \E g \in Refreshers : Die(g)
  \/ NewRequest
  \/ Dispatch
  \/ AfterAttempt
  \/ Respond
  \/ Status
  \/ StatusDone

SpecServe == Init /\ [][NextServe]_vars

\* N calls started together while no refresh is active: after NewRouter has
\* returned, goroutines call doSelection as long as the token is in the
\* channel, the lock is free and no earlier caller has reached its select
Callers == {Timer} \cup Triggers

BurstCall(g) ==
  /\ selectCalls = 1
  /\ theConch = 1
  /\ wholder = None
  /\ readers = {}
  /\ \A h \in Callers : pc[h] \in {"idle", "recv"}
  /\ Call(g)

NextBurst ==
  \/ Seed
  \/ Spawn
  \/ \E g \in Procs : BurstCall(g)
  \/ \E g \in Procs : Recv(g)
  \/ \E g \in Procs : Lock(g)
  \/ \E g \in Procs : Granted(g)
  \/ \E g \in Procs : Select(g)
  \/ \E g \in Procs : Policy(g)
  \/ \E g \in Procs : Assign(g)
  \/ \E g \in Procs : Metrics(g)
  \/ \E g \in Procs : Send(g)
  \/ \E g \in Procs : Unlock(g)
  \/ \E g \in Procs : RLock(g)
  \/ \E g \in Procs : RUnlock(g)
  \/ \E g \in Procs : PanicUnlock(g)
  \/ \E g \in Procs : Die(g)
  \/ \E g \in Procs : Recover(g)

SpecBurst == Init /\ [][NextBurst]_vars

\* equal(a, b) on its own, for any two []*url.URL of bounded length
EqualInputs ==
  UNION {[1..n -> Endpoints] : n \in 0..MaxLen}

InitEqual ==
  /\ InitRouter
  /\ eqA \in EqualInputs
  /\ eqB \in EqualInputs
  /\ eqOut = "none"

\* one call equal(eqA, eqB)
ApplyEqual ==
  /\ eqOut = "none"
  /\ eqOut' = equal(eqA, eqB)
  /\ UNCHANGED <<eqA, eqB, statusOut>>
  /\ UNCHANGED refreshVars
  /\ UNCHANGED reqVars

NextEqual == ApplyEqual

SpecEqual == InitEqual /\ [][NextEqual]_vars

TypeOK ==
  /\ theConch \in 0..1
  /\ wholder \in Procs \cup {None}
  /\ readers \subseteq Procs
  /\ selection \in {Nil} \cup {Ptr(r) : r \in Results}
  /\ rewriter \in {Nil} \cup {Ptr(s) : s \in Selections}
\* =================================================================== claims
\* positions from the return of Lock() to the deferred Unlock()
WriterRegion ==
  {"select", "policy", "assign", "metrics", "send", "unlock", "panicking"}
WaiterRegion == {"rlock", "rwait", "runlock"}

\* the Selection the installed rewriter resolves over, empty when none is set
RewriterBasis == IF rewriter = Nil THEN <<>> ELSE Deref(rewriter)

\* C1: at most one goroutine is between the start of selector.Select() and
\* the end of the state update that follows it (and up to its Unlock);
\* refresh cycles never overlap.
C1_MutualExclusion ==
  Cardinality({g \in Procs : pc[g] \in WriterRegion}) <= 1

\* a second goroutine has taken the token and stands at Lock() while the
\* previous writer is still inside
C1_Witness ==
  \E g, h \in Procs :
    g # h /\ pc[g] \in WriterRegion /\ pc[h] = "lock"

\* C2: a call that took the default branch returns (has its read lock) only
\* after the attempt that held the token when its receive failed has
\* finished its Select() and state update.
C2_WaiterSeesCompletedAttempt ==
  \A g \in Procs : pc[g] = "runlock" => selectionEvents >= seen[g]

\* the group of concurrently started calls has returned
BurstOver ==
  /\ pc[Main] = "done"
  /\ taken > 1
  /\ \A g \in Callers : pc[g] = "idle"

\* C3 as stated: a group of calls started together while no refresh is
\* active executes exactly one Select() (the second overall, after
\* NewRouter's own).
C3_ExactlyOneSelect == BurstOver => selectCalls = 2

\* C3 amended: a call executes Select() only when its receive obtained the
\* token, a call in the default branch does no selection work, and a group
\* of N calls executes at least one and at most N Select() calls.
C3_OneSelectPerToken ==
  /\ selectCalls <= taken
  /\ \A g \in Procs : pc[g] \in WaiterRegion => result[g] = Nil
  /\ BurstOver =>
       /\ selectCalls = taken
       /\ selectCalls - 1 \in 1..Cardinality(Callers)

\* the group is done and two of its calls each ran Select()
C3_Witness == BurstOver /\ selectCalls = 3

\* C4: a refresh whose Select() returns an empty Selection and an error,
\* while the current result has a non-empty Selection, leaves r.selection
\* and r.rewriter as they were, through to the end of the refresh.
C4_Case(g) ==
  /\ pc[g] = "policy"
  /\ Len(Deref(result[g]).Selection) = 0
  /\ err[g]
  /\ SelectionNow # <<>>

C4_LastKnownGood ==
  [][\A g \in Procs :
       /\ (C4_Case(g) /\ pc'[g] # "policy") =>
            (selection' = selection /\ rewriter' = rewriter
               /\ installs' = installs)
       /\ (pc[g] \in {"metrics", "send", "unlock"} /\ pc'[g] # pc[g]) =>
            (selection' = selection /\ rewriter' = rewriter)]_vars

\* the policy has run on an error result while a good selection was in place
C4_Witness ==
  \E g \in Procs :
    /\ pc[g] = "metrics"
    /\ Len(Deref(result[g]).Selection) = 0
    /\ err[g]
    /\ SelectionNow # <<>>
    /\ selection # result[g]

\* C6: a refresh whose non-empty Selection equals the current one, element
\* by element, does not replace the rewriter (no new installation), and
\* r.selection is still replaced by the new result.
C6_Case(g) ==
  /\ pc[g] = "policy"
  /\ Len(Deref(result[g]).Selection) > 0
  /\ selection # Nil
  /\ Deref(selection).Selection = Deref(result[g]).Selection

C6_Stability ==
  [][\A g \in Procs :
       /\ (C6_Case(g) /\ pc'[g] # "policy") =>
            (rewriter' = rewriter /\ installs' = installs
               /\ pc'[g] = "assign")
       /\ (pc[g] = "assign" /\ pc'[g] # "assign") =>
            selection' = result[g]]_vars

\* the second refresh returned the first one's non-empty Selection: one
\* installation for two Select() calls, and r.selection is the new result
C6_Witness ==
  \E g \in Procs :
    /\ pc[g] = "metrics"
    /\ Len(Deref(result[g]).Selection) > 0
    /\ selection = result[g]
    /\ selectCalls = 2
    /\ selectionEvents = 1
    /\ selectedBackends > 0
    /\ installs = 1

\* C7: a refresh whose non-empty Selection N differs from the previous one
\* (or there is none) installs a rewriter over N and goes on to replace
\* r.selection by the new result, for every pair (P, N).
C7_Case(g) ==
  /\ pc[g] = "policy"
  /\ Len(Deref(result[g]).Selection) > 0
  /\ \/ selection = Nil
     \/ Deref(selection).Selection # Deref(result[g]).Selection

C7_InstallOnChange ==
  [][\A g \in Procs :
       /\ (C7_Case(g) /\ pc'[g] # "policy") =>
            /\ pc'[g] = "assign"
            /\ rewriter' = Ptr(Deref(result[g]).Selection)
            /\ installs' = installs + 1
       /\ (pc[g] = "assign" /\ pc'[g] # "assign") =>
            selection' = result[g]]_vars

\* NewRouter has returned: Status() and requests can read the router state
\* (Status takes no lock)
ReaderCanRead == pc[Main] = "done"

\* C8: whenever a reader can read the router state, the selection the
\* rewriter resolves over equals r.selection.Selection.
C8_ConsistentPair == ReaderCanRead => RewriterBasis = SelectionNow

\* no refresh is between its Lock() and its Unlock()
NoRefreshRunning == \A g \in Procs : pc[g] \notin WriterRegion

C9_RetryBound ==
  [][/\ attempt' <= 2
     /\ (rpc = "forwarded" /\ rpc' # "forwarded"
           /\ attempt = 1 /\ outcome = "neterr") =>
          (rpc' = "dispatch" /\ attempt' = 2)
     /\ (rpc = "forwarded" /\ rpc' # "forwarded"
           /\ (attempt = 2 \/ outcome # "neterr")) =>
          (rpc' = "responded" /\ attempt' = attempt /\ outcome' = outcome)
     /\ rpc = "responded" =>
          (attempt \in 1..2 /\ (outcome = "neterr" => attempt = 2))]_vars

\* the first attempt failed with a network error and the second succeeded
C9_Witness == rpc = "responded" /\ attempt = 2 /\ outcome = "ok"

C11_Case(g) ==
  /\ pc[g] = "policy"
  /\ Len(Deref(result[g]).Selection) = 0
  /\ ~err[g]

C11_NoBackendsAdopted ==
  [][\A g \in Procs :
       /\ (C11_Case(g) /\ pc'[g] # "policy") =>
            (selection' = result[g] /\ pc'[g] = "metrics")
       /\ (pc[g] \in {"metrics", "send", "unlock"} /\ pc'[g] # pc[g]) =>
            selection' = selection]_vars

\* an empty result without error has replaced a result whose Selection was
\* not empty (the gauge still shows the previous refresh)
C11_Witness ==
  \E g \in Procs :
    /\ pc[g] = "metrics"
    /\ Len(Deref(result[g]).Selection) = 0
    /\ ~err[g]
    /\ selection = result[g]
    /\ selectedBackends > 0
    /\ selectCalls = 2

\* C12: a refresh whose Select() returns an empty Selection with an error
\* adopts the new result when r.selection is nil and keeps the previous
\* result, of whatever kind, otherwise.
C12_Case(g) ==
  /\ pc[g] = "policy"
  /\ Len(Deref(result[g]).Selection) = 0
  /\ err[g]

C12_ErrorAdoptedOnlyWhenNil ==
  [][\A g \in Procs :
       (C12_Case(g) /\ pc'[g] # "policy") =>
          selection' = (IF selection = Nil THEN result[g] ELSE selection)]_vars

\* an error result was dropped in favour of a previous result whose own
\* Selection is empty
C12_Witness ==
  \E g \in Procs :
    /\ pc[g] = "metrics"
    /\ Len(Deref(result[g]).Selection) = 0
    /\ err[g]
    /\ selection # Nil
    /\ selection # result[g]
    /\ SelectionNow = <<>>

\* a Status() call is made in this step
StatusStep == statusOut = Nil /\ statusOut' # Nil

\* C13 as stated: Status() returns as Endpoints exactly the admitted
\* endpoints (the Selection) of the current result, and changes neither
\* r.selection, r.rewriter, the token nor the metrics.
C13_StatusReportsSelection ==
  [][StatusStep =>
       /\ statusOut' = Ptr(Range(SelectionNow))
       /\ UNCHANGED <<selection, rewriter, theConch, selectedBackends,
                      selectionEvents>>]_vars

\* C13 amended: Status() returns as Endpoints the Candidates of the current
\* result (every discovered endpoint, admitted or not), and changes neither
\* r.selection, r.rewriter, the token nor the metrics.
C13_StatusReportsCandidates ==
  [][StatusStep =>
       /\ selection # Nil
       /\ statusOut' = Ptr(Deref(selection).Candidates)
       /\ UNCHANGED <<selection, rewriter, theConch, selectedBackends,
                      selectionEvents>>]_vars

\* Status() has reported an endpoint that is not admitted, after a refresh
\* by the timer loop
C13_Witness ==
  /\ statusOut # Nil
  /\ selection # Nil
  /\ Deref(statusOut) = Deref(selection).Candidates
  /\ Deref(statusOut) # Range(SelectionNow)
  /\ selectionEvents >= 2

\* C14 as stated: the exclusive lock is released before the token is put
\* back; the token is never in the channel while the writer that returned
\* it still holds the lock.
C14_UnlockBeforeToken ==
  \A g \in Procs : (pc[g] = "unlock" /\ wholder = g) => theConch = 0

\* C14 amended: the writer puts the token back while it still holds the
\* exclusive lock, and the lock is released only by the deferred Unlock():
\* after that send when the function returns, or, with the token not put
\* back at all, when the panic of equal unwinds it.
C14_TokenBeforeUnlock ==
  [][\A g \in Procs :
       /\ (pc[g] = "send" /\ pc'[g] # "send") =>
            (theConch' = 1 /\ wholder = g /\ wholder' = g
               /\ pc'[g] = "unlock")
       /\ (wholder = g /\ wholder' # g) =>
            \/ pc[g] = "unlock"
            \/ pc[g] = "panicking" /\ theConch' = theConch]_vars

\* the token is back in the channel and the writer that sent it still holds
\* the lock
C14_Witness ==
  \E g \in Procs : pc[g] = "unlock" /\ wholder = g /\ theConch = 1

\* no call has got a result from Select() that it has not yet counted
NoUncountedSelect ==
  \A g \in Procs : pc[g] \notin {"policy", "assign", "metrics"}

\* C16: selectionEvents is incremented once by every call that took the
\* token and ran Select(), and by no other; the counter equals the number of
\* completed Select() executions.
C16_EventsCountSelects == NoUncountedSelect => selectionEvents = selectCalls

\* C17: whenever no refresh is in progress, the selectedBackends gauge
\* equals the number of endpoints in r.selection.Selection.
C17_GaugeMatchesSelection ==
  NoRefreshRunning => selectedBackends = Len(SelectionNow)

\* goroutines that have received the token and not sent it back
TokenHolders ==
  {g \in Procs : pc[g] \in {"lock", "lockwait", "select", "policy", "assign",
                            "metrics", "send", "panicking", "panicked",
                            "recovered"}}

\* C19: theConch holds 0 or 1 tokens, and once NewRouter has seeded it the
\* tokens in the channel plus the goroutines holding the token number 1.
C19_TokenConservation ==
  /\ theConch \in 0..1
  /\ pc[Main] # "seed" => theConch + Cardinality(TokenHolders) = 1

\* the token has gone round once and is out again, with a waiter present
C19_Witness ==
  /\ taken >= 2
  /\ theConch = 0
  /\ \E g \in Procs : pc[g] \in WaiterRegion

\* C20: r.selection is non-nil when NewRouter returns (its synchronous
\* refresh is over) and is never nil afterwards.
C20_SelectionSetOnce ==
  pc[Main] \in {"spawn", "done"} => selection # Nil

\* later refreshes have run, the last one adopting an empty result
C20_Witness ==
  /\ pc[Main] = "done"
  /\ selectionEvents >= 2
  /\ selection # Nil
  /\ SelectionNow = <<>>

\* C15: for any two selections a and b, equal(a, b) ends normally with a
\* boolean, which is true exactly when a and b have the same length and the
\* same element at every index.
C15_EqualTotal ==
  eqOut # "none" =>
    /\ eqOut \in {"true", "false"}
    /\ (eqOut = "true") <=> (eqA = eqB)

\* g's doSelection call has returned
Returned(g) == pc[g] \in {"idle", "spawn", "done"}

\* C18: under fair scheduling every call of doSelection eventually returns,
\* in the writer branch and in the waiter branch.
C18_CallsReturn ==
  \A g \in Procs : (pc[g] = "recv") ~> Returned(g)

====
